---- MODULE Spec2Model ----
\* Model of the LinkedIn MCP server: the send_connection_request tool
\* (tools/connection.py), the close_session tool and the lifespan hook
\* (server.py), and the browser session manager they call
\* (drivers/browser.py) together with the error translator
\* (error_handler.py).
\*
\* Scheduling follows asyncio: a coroutine runs without interruption from one
\* suspension point to the next.  The suspension points are the waits for the
\* creation lock, the browser launch, the sign-in flow, the release of the
\* browser handle, and every awaited page or progress operation of the tool.
\* One action of the model is one such uninterrupted run.
EXTENDS Integers, Sequences, FiniteSets

\* ---------------------------------------------------------------- bounds

\* How many tool invocations the transport dispatches in one behaviour.
MaxInvocations == 2
\* How many times the close_session tool is invoked in one behaviour.
MaxCloseCalls == 2
\* The longest note exceeds the limit by this many characters.
MaxExtra == 2

\* ------------------------------------------------------------- constants

\* note[:300]
NoteLimit == 300

ToolName == "send_connection_request"

\* Concurrent invocation slots of send_connection_request.
Tasks == {1, 2}

\* Callers of close_browser: the slots (sign-in failure cleanup), the
\* close_session tool and the lifespan hook.
Slot(t) == IF t = 1 THEN "slot1" ELSE "slot2"
Closers == {Slot(t) : t \in Tasks} \cup {"close_session", "lifespan"}

\* A text of n characters; the character at position i depends on i, so a
\* prefix, a suffix and a shorter prefix of the same text all differ.
Text(n) == [i \in 1..n |-> i % 7]

NoteLens == {0, 1, NoteLimit - 1, NoteLimit, NoteLimit + 1, NoteLimit + MaxExtra}

\* Notes a caller may pass in the single-invocation specification.
Notes == {Text(n) : n \in NoteLens}

\* The note of the concurrent specification: a short one.
ShortNotes == {Text(1)}

Urls == {"https://www.linkedin.com/in/alice"}

Min(a, b) == IF a < b THEN a ELSE b

\* ----------------------------------------------------------------- state

VARIABLES
    task,           \* per slot: the locals and position of one invocation
    invocations,    \* tool invocations dispatched so far
    session,        \* the process-wide singleton: 0 (absent) or a session id
    authenticated,  \* the sessions whose authenticated flag is set
    released,       \* the sessions whose browser handle release has begun
    lock,           \* the creation lock: 0 (free) or the slot holding it
    launched,       \* browsers launched so far; the last session id
    closing,        \* per closer: the handle it is releasing, 0 if none
    cs,             \* the close_session tool: position, result, calls so far
    life,           \* the lifespan hook: "running", "closing" or "stopped"
    hist            \* history: what the claims need to remember

vars == <<task, invocations, session, authenticated, released, lock, launched,
          closing, cs, life, hist>>

mgr == <<session, authenticated, released, lock, launched>>

\* ------------------------------------------------------ results and errors

NoResult == [none |-> TRUE]

ConnectNotFoundText ==
    "Connect button not found. The person may already be a connection, a pending request exists, or this profile does not allow connection requests."

SendNotFoundText == "Send button not found after opening connection modal."

ConnectNotFound(profile_url) ==
    [success |-> FALSE, profile |-> profile_url, error |-> ConnectNotFoundText]

SendNotFound(profile_url) ==
    [success |-> FALSE, profile |-> profile_url, error |-> SendNotFoundText]

\* bool(note) of the local variable note as it stands at the return
SentResult(profile_url, note) ==
    [success |-> TRUE, profile |-> profile_url, note_included |-> (note /= <<>>)]

\* handle_tool_error(e, "send_connection_request"): never re-raises, yields
\* {status: "error", message: "<toolName>: <description>"}
handle_tool_error(e, toolName) ==
    [status |-> "error", message |-> <<toolName, e>>]

IsSuccess(r) == "success" \in DOMAIN r /\ r.success
IsNotFound(r) == "success" \in DOMAIN r /\ ~r.success
IsTranslated(r) == "status" \in DOMAIN r /\ r.status = "error"


\* A faulty variant: the try block opens only after the session has been obtained.
InTryAfterSetup(at) == at \notin {"acquire", "launch", "signin", "cleanup"}

\* The try block of send_connection_request spans the whole body, from the
\* first await to the last return; `at` is the position that raised.
InTry(at) == TRUE

\* except Exception as e: return handle_tool_error(e, ...).  An exception
\* raised outside the try block would escape to the transport ("crashed").
Raise(tk, e) ==
    IF InTry(tk.pc)
    THEN [tk EXCEPT !.pc = "done", !.result = handle_tool_error(e, ToolName)]
    ELSE [tk EXCEPT !.pc = "crashed"]

\* ------------------------------------------------------------ the history

NoHist ==
    [epochLaunched |-> 0,   \* browsers launched since the last completed close
     epochReturned |-> {},  \* sessions getOrCreateSession returned since then
     closed |-> {},         \* sessions a completed close released or cleared
     stale |-> {},          \* sessions returned although already in `closed`
     signedIn |-> {},       \* sessions on which a sign-in succeeded
     failed |-> {},         \* sessions whose sign-in failure was raised
     afterClose |-> {},     \* the singleton as each close left it
     afterFailure |-> {},   \* the singleton as each failed sign-in left it
     tracing |-> TRUE]      \* whether the page operations are recorded

\* getOrCreateSession returned sid
Got(h, sid) ==
    [h EXCEPT !.epochReturned = @ \cup {sid},
              !.stale = @ \cup ({sid} \cap h.closed)]

\* a close completed: it released or cleared the sessions S and left `left`
ClosedHist(h, S, left) ==
    [h EXCEPT !.epochLaunched = 0, !.epochReturned = {},
              !.closed = @ \cup (S \ {0}), !.afterClose = @ \cup {left}]

\* --------------------------------------------------- the session manager

\* A faulty variant: creation is not mutually exclusive.
NoLock == TRUE

\* The creation critical section: a caller enters it only when no other
\* creation is in flight.
LockFree == lock = 0

\* A faulty variant: closeSession releases the handle and keeps the singleton.
KeepSingleton(s) == s

\* closeSession clears the singleton.
Cleared(s) == 0

\* closeSession logs and swallows an error of the underlying release.
close_browser_raises(err) == FALSE

\* The sign-in flow completed against the current browser handle: the session
\* it ran on is still the installed one and its handle is not released.
SignInCanSucceed(s) == s = session /\ s \notin released

\* A faulty variant: the tool goes straight to get_or_create_browser.
SkipEnsure == "tool"

\* send_connection_request first awaits ensure_authenticated (line 52) and
\* only then get_or_create_browser (line 60).
EntryContext == "ensure"

\* line 60 and 61: browser = await get_or_create_browser(); page = browser.page;
\* then line 63 awaits the first progress report.
GotBrowser(tk, sid) ==
    [tk EXCEPT !.ctx = "tool", !.browser = sid, !.pc = "progress10"]

\* ensure_authenticated returned at line 52 and the tool runs on, without
\* suspending, into get_or_create_browser at line 60: the live session is
\* returned at once; with none installed the call enters the creation
\* critical section, or waits for it.
Line60(tk) ==
    IF session /= 0 THEN GotBrowser(tk, session)
    ELSE IF LockFree THEN [tk EXCEPT !.ctx = "tool", !.pc = "launch"]
    ELSE [tk EXCEPT !.ctx = "tool", !.pc = "acquire"]

Line60Lock(t) == IF session = 0 /\ LockFree THEN t ELSE lock

Line60Hist(h) == IF session /= 0 THEN Got(h, session) ELSE h

\* getOrCreateSession hands sid to its caller: to ensureAuthenticated, which
\* returns at once when the flag is set and otherwise starts the sign-in
\* flow; or to the tool at line 60.
ReturnSession(tk, sid) ==
    IF tk.ctx = "ensure"
    THEN IF sid \in authenticated
         THEN Line60([tk EXCEPT !.auth = "skipped"])
         ELSE [tk EXCEPT !.s = sid, !.pc = "signin"]
    ELSE GotBrowser(tk, sid)

\* A faulty variant: the failure of ensure_authenticated is swallowed and the tool goes on.
SwallowEnsureFailure(tk) ==
    [tk EXCEPT !.auth = "failed", !.ctx = "tool", !.pc = "progress10"]

\* ensure_authenticated raised AuthenticationError at line 52: control goes to
\* the except clause.
OnEnsureFailure(tk) ==
    Raise([tk EXCEPT !.auth = "failed"], "AuthenticationError")

IdleTask ==
    [pc |-> "idle", profile_url |-> "", arg |-> <<>>, note |-> <<>>,
     ctx |-> "ensure", s |-> 0, browser |-> 0, connect_btn |-> FALSE,
     auth |-> "none", result |-> NoResult, trace |-> <<>>]

Init ==
    /\ task = [t \in Tasks |-> IdleTask]
    /\ invocations = 0
    /\ session = 0
    /\ authenticated = {}
    /\ released = {}
    /\ lock = 0
    /\ launched = 0
    /\ closing = [c \in Closers |-> 0]
    /\ cs = [pc |-> "idle", result |-> NoResult, calls |-> 0]
    /\ life = "running"
    /\ hist = NoHist

\* The transport dispatches send_connection_request(profile_url, ctx, note).
send_connection_request(t, profile_url, note) ==
    /\ task[t].pc \in {"idle", "done", "crashed"}
    /\ life = "running"
    /\ invocations' = invocations + 1
    /\ task' = [task EXCEPT ![t] =
                  [IdleTask EXCEPT !.pc = "acquire", !.ctx = EntryContext,
                                   !.profile_url = profile_url,
                                   !.arg = note, !.note = note]]
    /\ UNCHANGED <<mgr, closing, cs, life, hist>>

\* getOrCreateSession: return the live session if present, otherwise enter
\* the creation critical section and start the launch.
get_or_create_browser(t) ==
    /\ task[t].pc = "acquire"
    /\ IF session /= 0
       THEN /\ task' = [task EXCEPT ![t] = ReturnSession(@, session)]
            /\ hist' = Got(hist, session)
            /\ UNCHANGED lock
       ELSE /\ LockFree
            /\ lock' = t
            /\ task' = [task EXCEPT ![t].pc = "launch"]
            /\ UNCHANGED hist
    /\ UNCHANGED <<invocations, session, authenticated, released, launched,
                   closing, cs, life>>

\* The launch ends: the new browser and page are stored as the singleton and
\* returned, or the launch failed and the failure is raised to the caller.
get_or_create_browser_launched(t) ==
    /\ task[t].pc = "launch"
    /\ lock' = 0
    /\ \E ok \in BOOLEAN :
         IF ok
         THEN /\ launched' = launched + 1
              /\ session' = launched + 1
              /\ task' = [task EXCEPT ![t] = ReturnSession(@, launched + 1)]
              /\ hist' = [Got(hist, launched + 1) EXCEPT !.epochLaunched = @ + 1]
         ELSE /\ task' = [task EXCEPT ![t] = Raise(@, "BrowserError")]
              /\ UNCHANGED <<launched, session, hist>>
    /\ UNCHANGED <<invocations, authenticated, released, closing, cs, life>>

\* The sign-in flow ends.  On success the flag is set, ensureAuthenticated
\* returns and the tool runs on to line 60.  On failure the session is
\* uninstalled through closeSession before AuthenticationError is raised.
ensure_authenticated(t) ==
    /\ task[t].pc = "signin"
    /\ \E ok \in BOOLEAN :
         IF ok
         THEN /\ SignInCanSucceed(task[t].s)
              /\ authenticated' = authenticated \cup {task[t].s}
              /\ task' = [task EXCEPT ![t] = Line60([@ EXCEPT !.auth = "signedin"])]
              /\ lock' = Line60Lock(t)
              /\ hist' = [Line60Hist(hist) EXCEPT !.signedIn = @ \cup {task[t].s}]
              /\ UNCHANGED <<session, released, closing>>
         ELSE IF session = 0
              THEN /\ task' = [task EXCEPT ![t] = OnEnsureFailure(@)]
                   /\ hist' = [ClosedHist(hist, {}, session) EXCEPT
                                 !.failed = @ \cup {task[t].s},
                                 !.afterFailure = @ \cup {session}]
                   /\ UNCHANGED <<session, authenticated, released, closing, lock>>
              ELSE /\ closing' = [closing EXCEPT ![Slot(t)] = session]
                   /\ released' = released \cup {session}
                   /\ task' = [task EXCEPT ![t].pc = "cleanup"]
                   /\ UNCHANGED <<session, authenticated, hist, lock>>
    /\ UNCHANGED <<invocations, launched, cs, life>>

\* The release started by a failed sign-in ends; the singleton is cleared and
\* AuthenticationError is raised to the tool.
ensure_authenticated_failed(t) ==
    /\ task[t].pc = "cleanup"
    /\ session' = Cleared(session)
    /\ closing' = [closing EXCEPT ![Slot(t)] = 0]
    /\ task' = [task EXCEPT ![t] = OnEnsureFailure(@)]
    /\ hist' = [ClosedHist(hist, {closing[Slot(t)], session}, Cleared(session)) EXCEPT
                  !.failed = @ \cup {task[t].s},
                  !.afterFailure = @ \cup {Cleared(session)}]
    /\ UNCHANGED <<invocations, authenticated, released, lock, launched, cs, life>>

\* ------------------------------------------- close_session and lifespan

\* A faulty variant: the two returns of close_session are swapped.
close_session_result_swapped(raised) ==
    IF raised
    THEN [status |-> "success",
          message |-> "Successfully closed the browser session and cleaned up resources"]
    ELSE [status |-> "error", message |-> "Error closing browser session"]

\* close_session: success when close_browser returned, error when it raised.
close_session_result(raised) ==
    IF raised
    THEN [status |-> "error", message |-> "Error closing browser session"]
    ELSE [status |-> "success",
          message |-> "Successfully closed the browser session and cleaned up resources"]

\* The transport dispatches close_session(); close_browser finds no session
\* and returns, or starts releasing the browser handle.
close_session ==
    /\ cs.pc \in {"idle", "done"}
    /\ cs.calls < MaxCloseCalls
    /\ life = "running"
    /\ IF session = 0
       THEN /\ cs' = [pc |-> "done", result |-> close_session_result(FALSE),
                      calls |-> cs.calls + 1]
            /\ hist' = ClosedHist(hist, {}, session)
            /\ UNCHANGED <<closing, released>>
       ELSE /\ cs' = [cs EXCEPT !.pc = "closing", !.result = NoResult,
                                !.calls = @ + 1]
            /\ closing' = [closing EXCEPT !["close_session"] = session]
            /\ released' = released \cup {session}
            /\ UNCHANGED hist
    /\ UNCHANGED <<task, invocations, session, authenticated, lock, launched, life>>

\* The release ends, with or without an error of the browser; close_browser
\* clears the singleton and close_session returns.
close_session_returns ==
    /\ cs.pc = "closing"
    /\ \E err \in BOOLEAN :
         cs' = [cs EXCEPT !.pc = "done",
                          !.result = close_session_result(close_browser_raises(err))]
    /\ session' = Cleared(session)
    /\ closing' = [closing EXCEPT !["close_session"] = 0]
    /\ hist' = ClosedHist(hist, {closing["close_session"], session}, Cleared(session))
    /\ UNCHANGED <<task, invocations, authenticated, released, lock, launched, life>>

\* lifespan: the server shuts down and awaits close_browser(), outside any
\* try block.
lifespan ==
    /\ life = "running"
    /\ IF session = 0
       THEN /\ life' = "stopped"
            /\ hist' = ClosedHist(hist, {}, session)
            /\ UNCHANGED <<closing, released>>
       ELSE /\ life' = "closing"
            /\ closing' = [closing EXCEPT !["lifespan"] = session]
            /\ released' = released \cup {session}
            /\ UNCHANGED hist
    /\ UNCHANGED <<task, invocations, session, authenticated, lock, launched, cs>>

lifespan_exit ==
    /\ life = "closing"
    /\ \E err \in BOOLEAN :
         life' = IF close_browser_raises(err) THEN "crashed" ELSE "stopped"
    /\ session' = Cleared(session)
    /\ closing' = [closing EXCEPT !["lifespan"] = 0]
    /\ hist' = ClosedHist(hist, {closing["lifespan"], session}, Cleared(session))
    /\ UNCHANGED <<task, invocations, authenticated, released, lock, launched, cs>>


\* ------------------------------------------- send_connection_request

\* A faulty variant: the note is passed on whole.
KeepWholeNote(note) == note

\* note = note[:300]
Truncate(note) == SubSeq(note, 1, Min(Len(note), NoteLimit))

ConnectSelector == "button[aria-label*=Connect]"
MoreSelector == "button[aria-label*=More actions]"
MenuConnectSelector == "[aria-label*=Connect]"
AddNoteSelector == "button:has-text(Add a note)"
MessageSelector == "textarea[name=message]"
SendSelector == "button:has-text(Send), button:has-text(Send now)"
SendFallbackSelector == "[data-control-name=send_invite]"

\* What an awaited operation can do when it resumes.  An operation on the
\* page of a session whose handle is being or has been released fails.
AwaitOutcomes == {"ok", "raise"}
PageOutcomes(tk) ==
    IF tk.browser \in released THEN {"raise"} ELSE {"ok", "raise"}
QueryOutcomes(tk) ==
    IF tk.browser \in released THEN {"raise"} ELSE {"found", "absent", "raise"}

Goto(tk) == [op |-> "goto", url |-> tk.profile_url, session |-> tk.browser]
Query(sel, found) == [op |-> "query", target |-> sel, found |-> found]
Click(what) == [op |-> "click", target |-> what]
Fill(text) == [op |-> "fill", text |-> text]

\* the page operation ev completed (recorded in the invocation's trace)
Did(tk, ev) == IF hist.tracing THEN [tk EXCEPT !.trace = Append(@, ev)] ELSE tk
At(tk, pc) == [tk EXCEPT !.pc = pc]
Return(tk, r) == [tk EXCEPT !.pc = "done", !.result = r]

\* A faulty variant: the check of line 90 is missing and the tool goes on to line 101.
ConnectUnchecked(tk) == [tk EXCEPT !.pc = "click_connect"]

\* lines 90-99: if not connect_btn: return the not-found result
ConnectMissing(tk) == Return(tk, ConnectNotFound(tk.profile_url))

\* lines 110-133, 135: a non-empty note is truncated and the "Add a note"
\* button looked up; with no note the tool goes on to the 80% report.
NoteBranch(tk) ==
    IF tk.note /= <<>>
    THEN At([tk EXCEPT !.note = Truncate(@)], "q_add_note")
    ELSE At(tk, "progress80")

\* lines 164-168
Sent(tk) == Return(tk, SentResult(tk.profile_url, tk.note))

\* One resumption of slot t with outcome o of the awaited operation: the
\* exception is handed to the except clause, or the invocation continues with
\* the locals `next`.
Resume(t, o, next) ==
    /\ task' = [task EXCEPT ![t] = IF o = "raise" THEN Raise(@, "Error") ELSE next]
    /\ UNCHANGED <<invocations, mgr, closing, cs, life, hist>>

\* line 63 -> line 67
Progress10(t) ==
    /\ task[t].pc = "progress10"
    /\ \E o \in AwaitOutcomes :
         Resume(t, o, At(task[t], "goto"))

\* line 67 -> line 69
Navigate(t) ==
    /\ task[t].pc = "goto"
    /\ \E o \in PageOutcomes(task[t]) :
         Resume(t, o, At(Did(task[t], Goto(task[t])), "progress30"))

\* line 69 -> line 74
Progress30(t) ==
    /\ task[t].pc = "progress30"
    /\ \E o \in AwaitOutcomes :
         Resume(t, o, At(task[t], "q_connect"))

\* line 74: the direct Connect button -> line 101, or line 80
QueryConnect(t) ==
    /\ task[t].pc = "q_connect"
    /\ \E o \in QueryOutcomes(task[t]) :
         Resume(t, o,
           IF o = "found"
             THEN At(Did([task[t] EXCEPT !.connect_btn = TRUE], Query(ConnectSelector, TRUE)),
                  "click_connect")
             ELSE At(Did(task[t], Query(ConnectSelector, FALSE)), "q_more"))

\* line 80: "More actions" -> line 84, or the not-found return of line 90
QueryMore(t) ==
    /\ task[t].pc = "q_more"
    /\ \E o \in QueryOutcomes(task[t]) :
         Resume(t, o,
           IF o = "found"
             THEN At(Did(task[t], Query(MoreSelector, TRUE)), "click_more")
             ELSE ConnectMissing(Did(task[t], Query(MoreSelector, FALSE))))

\* line 84 -> line 85
ClickMore(t) ==
    /\ task[t].pc = "click_more"
    /\ \E o \in PageOutcomes(task[t]) :
         Resume(t, o, At(Did(task[t], Click("more")), "wait_menu"))

\* line 85 -> line 86
WaitMenu(t) ==
    /\ task[t].pc = "wait_menu"
    /\ \E o \in PageOutcomes(task[t]) :
         Resume(t, o, At(task[t], "q_menu_connect"))

\* line 86: Connect inside the menu -> line 101, or the return of line 90
QueryMenuConnect(t) ==
    /\ task[t].pc = "q_menu_connect"
    /\ \E o \in QueryOutcomes(task[t]) :
         Resume(t, o,
           IF o = "found"
             THEN At(Did([task[t] EXCEPT !.connect_btn = TRUE],
                  Query(MenuConnectSelector, TRUE)), "click_connect")
             ELSE ConnectMissing(Did(task[t], Query(MenuConnectSelector, FALSE))))

\* line 101 -> line 103
ClickConnect(t) ==
    /\ task[t].pc = "click_connect"
    /\ \E o \in PageOutcomes(task[t]) :
         Resume(t, o, At(Did(task[t], Click("connect")), "progress55"))

\* line 103 -> line 108
Progress55(t) ==
    /\ task[t].pc = "progress55"
    /\ \E o \in AwaitOutcomes :
         Resume(t, o, At(task[t], "wait_modal"))

\* line 108 -> line 110
WaitModal(t) ==
    /\ task[t].pc = "wait_modal"
    /\ \E o \in PageOutcomes(task[t]) :
         Resume(t, o, NoteBranch(task[t]))

\* line 114: "Add a note" -> line 118, or line 135 without a note
QueryAddNote(t) ==
    /\ task[t].pc = "q_add_note"
    /\ \E o \in QueryOutcomes(task[t]) :
         Resume(t, o,
           IF o = "found"
             THEN At(Did(task[t], Query(AddNoteSelector, TRUE)), "click_add_note")
             ELSE At(Did(task[t], Query(AddNoteSelector, FALSE)), "progress80"))

\* line 118 -> line 119
ClickAddNote(t) ==
    /\ task[t].pc = "click_add_note"
    /\ \E o \in PageOutcomes(task[t]) :
         Resume(t, o, At(Did(task[t], Click("add_note")), "wait_note"))

\* line 119 -> line 121
WaitNote(t) ==
    /\ task[t].pc = "wait_note"
    /\ \E o \in PageOutcomes(task[t]) :
         Resume(t, o, At(task[t], "q_message"))

\* line 121: the message textarea -> line 125, or line 135 without a note
QueryMessage(t) ==
    /\ task[t].pc = "q_message"
    /\ \E o \in QueryOutcomes(task[t]) :
         Resume(t, o,
           IF o = "found"
             THEN At(Did(task[t], Query(MessageSelector, TRUE)), "fill")
             ELSE At(Did(task[t], Query(MessageSelector, FALSE)), "progress80"))

\* line 125 -> line 135
FillNote(t) ==
    /\ task[t].pc = "fill"
    /\ \E o \in PageOutcomes(task[t]) :
         Resume(t, o, At(Did(task[t], Fill(task[t].note)), "progress80"))

\* line 135 -> line 140
Progress80(t) ==
    /\ task[t].pc = "progress80"
    /\ \E o \in AwaitOutcomes :
         Resume(t, o, At(task[t], "q_send"))

\* line 140: Send -> line 156, or the fallback lookup of line 145
QuerySend(t) ==
    /\ task[t].pc = "q_send"
    /\ \E o \in QueryOutcomes(task[t]) :
         Resume(t, o,
           IF o = "found"
             THEN At(Did(task[t], Query(SendSelector, TRUE)), "click_send")
             ELSE At(Did(task[t], Query(SendSelector, FALSE)), "q_send_fallback"))

\* line 145: the fallback -> line 156, or the not-found return of line 149
QuerySendFallback(t) ==
    /\ task[t].pc = "q_send_fallback"
    /\ \E o \in QueryOutcomes(task[t]) :
         Resume(t, o,
           IF o = "found"
             THEN At(Did(task[t], Query(SendFallbackSelector, TRUE)), "click_send")
             ELSE Return(Did(task[t], Query(SendFallbackSelector, FALSE)),
                  SendNotFound(task[t].profile_url)))

\* line 156 -> line 158
ClickSend(t) ==
    /\ task[t].pc = "click_send"
    /\ \E o \in PageOutcomes(task[t]) :
         Resume(t, o, At(Did(task[t], Click("send")), "progress100"))

\* line 158 -> the return of line 164
Progress100(t) ==
    /\ task[t].pc = "progress100"
    /\ \E o \in AwaitOutcomes :
         Resume(t, o, Sent(task[t]))

\* ------------------------------------------------------- specifications

Script(t) ==
    \/ Progress10(t) \/ Navigate(t) \/ Progress30(t)
    \/ QueryConnect(t) \/ QueryMore(t) \/ ClickMore(t) \/ WaitMenu(t)
    \/ QueryMenuConnect(t) \/ ClickConnect(t) \/ Progress55(t) \/ WaitModal(t)
    \/ QueryAddNote(t) \/ ClickAddNote(t) \/ WaitNote(t) \/ QueryMessage(t)
    \/ FillNote(t) \/ Progress80(t) \/ QuerySend(t) \/ QuerySendFallback(t)
    \/ ClickSend(t) \/ Progress100(t)

Manager(t) ==
    \/ get_or_create_browser(t) \/ get_or_create_browser_launched(t) \/ ensure_authenticated(t) \/ ensure_authenticated_failed(t)

Closes ==
    \/ close_session \/ close_session_returns \/ lifespan \/ lifespan_exit

\* One invocation at a time, with notes around the length limit.
Next ==
    \/ /\ invocations < MaxInvocations
       /\ \E url \in Urls, note \in Notes : send_connection_request(1, url, note)
    \/ Manager(1)
    \/ Script(1)
    \/ Closes

Spec == Init /\ [][Next]_vars

\* Two invocations in flight, each with a short note.
NextConcurrent ==
    \/ /\ invocations < MaxInvocations
       /\ \E t \in Tasks, url \in Urls, note \in ShortNotes : send_connection_request(t, url, note)
    \/ \E t \in Tasks : Manager(t)
    \/ \E t \in Tasks : Script(t)
    \/ Closes

\* The concurrent specification keeps no trace of the page operations.
InitConcurrent ==
    /\ task = [t \in Tasks |-> IdleTask]
    /\ invocations = 0
    /\ session = 0
    /\ authenticated = {}
    /\ released = {}
    /\ lock = 0
    /\ launched = 0
    /\ closing = [c \in Closers |-> 0]
    /\ cs = [pc |-> "idle", result |-> NoResult, calls |-> 0]
    /\ life = "running"
    /\ hist = [NoHist EXCEPT !.tracing = FALSE]

SpecConcurrent == InitConcurrent /\ [][NextConcurrent]_vars


\* ------------------------------------------------------------ the claims

Events(t) == {task[t].trace[i] : i \in 1..Len(task[t].trace)}
Finished(t) == task[t].pc = "done"

\* the positions of the trace of slot t that hold the event ev
Places(t, ev) == {i \in 1..Len(task[t].trace) : task[t].trace[i] = ev}

\* C1: the text filled into the message field is the first 300 characters of
\* the note passed in (the whole note when it has at most 300), and a failure
\* result is never caused by the note's length: a not-found result follows a
\* lookup that found nothing, whatever the length of the note.
C1_NoteTruncated ==
    \A t \in Tasks :
      /\ \A e \in Events(t) :
           e.op = "fill" =>
             /\ Len(e.text) = Min(Len(task[t].arg), NoteLimit)
             /\ \A i \in 1..Len(e.text) : e.text[i] = task[t].arg[i]
      /\ (Finished(t) /\ IsNotFound(task[t].result)) =>
           LET last == task[t].trace[Len(task[t].trace)]
           IN last.op = "query" /\ ~last.found

\* a note longer than the limit was filled and the request was sent
C1_Witness ==
    \E t \in Tasks :
      /\ Finished(t) /\ IsSuccess(task[t].result)
      /\ Len(task[t].arg) > NoteLimit
      /\ \E e \in Events(t) : e.op = "fill" /\ Len(e.text) = NoteLimit

\* the lookups of slot t found no Connect control: the direct one was absent,
\* and so was "More actions" or the Connect entry of its menu
NoConnectControl(t) ==
    /\ Query(ConnectSelector, FALSE) \in Events(t)
    /\ \/ Query(MoreSelector, FALSE) \in Events(t)
       \/ Query(MenuConnectSelector, FALSE) \in Events(t)

\* C2: when neither the direct lookup nor the fallback yields a Connect
\* control, the invocation returns success = false with a non-empty error and
\* raises nothing.
C2_ConnectNotFound ==
    \A t \in Tasks :
      NoConnectControl(t) =>
        /\ Finished(t)
        /\ "success" \in DOMAIN task[t].result
        /\ task[t].result.success = FALSE
        /\ task[t].result.profile = task[t].profile_url
        /\ task[t].result.error /= ""

\* "More actions" was present and clicked, and its menu held no Connect entry
C2_Witness ==
    \E t \in Tasks :
      /\ Finished(t)
      /\ Click("more") \in Events(t)
      /\ Query(MenuConnectSelector, FALSE) \in Events(t)
      /\ task[t].result = ConnectNotFound(task[t].profile_url)

InFlight(t) == task[t].pc \notin {"idle", "done", "crashed"}

\* C3: no exception escapes send_connection_request; an invocation that ends
\* has returned a success result, a not-found result or a translated error;
\* and an invocation in flight is never stuck: its next step can be taken.
C3_AlwaysResult ==
    \A t \in Tasks :
      /\ task[t].pc /= "crashed"
      /\ Finished(t) =>
           \/ IsSuccess(task[t].result)
           \/ IsNotFound(task[t].result)
           \/ IsTranslated(task[t].result)
      /\ InFlight(t) => ENABLED (Manager(t) \/ Script(t))

\* a step failed after the Connect control was clicked and was translated
C3_Witness ==
    \E t \in Tasks :
      /\ Finished(t)
      /\ task[t].result = handle_tool_error("Error", ToolName)
      /\ Click("connect") \in Events(t)

\* C9: the Send control is clicked at most once and only after the Connect
\* control, and the invocation returns success = true exactly when Send was
\* clicked.
C9_SuccessIffSent ==
    \A t \in Tasks :
      /\ Cardinality(Places(t, Click("send"))) <= 1
      /\ \A i \in Places(t, Click("send")) :
           \E j \in Places(t, Click("connect")) : j < i
      /\ Finished(t) =>
           (IsSuccess(task[t].result) <=> Click("send") \in Events(t))

\* C10: success with note_included = true means the note was filled before
\* Send was clicked; when the "Add a note" button or the textarea was absent
\* and the request was sent, note_included is false.
C10_NoteIncluded ==
    \A t \in Tasks :
      (Finished(t) /\ IsSuccess(task[t].result)) =>
        /\ task[t].result.note_included =>
             \E i \in 1..Len(task[t].trace) :
               /\ task[t].trace[i].op = "fill"
               /\ \A j \in Places(t, Click("send")) : i < j
        /\ (\/ Query(AddNoteSelector, FALSE) \in Events(t)
            \/ Query(MessageSelector, FALSE) \in Events(t))
             => ~task[t].result.note_included


\* C4: closeSession never raises: the lifespan hook, which awaits it outside
\* any try block, never crashes, close_session always returns status
\* "success", also with no session ever created, and every close leaves the
\* manager with no session.
C4_CloseNeverRaises ==
    /\ life /= "crashed"
    /\ cs.pc = "done" => cs.result.status = "success"
    /\ hist.afterClose \subseteq {0}

\* close_session was called twice and no session was ever created
C4_Witness ==
    /\ cs.pc = "done" /\ cs.calls = 2
    /\ cs.result.status = "success"
    /\ launched = 0

\* C5: between two consecutive closes at most one browser is launched and
\* every getOrCreateSession call returns the same session, and at most one
\* creation is in flight at a time.
C5_OneSessionPerEpoch ==
    /\ hist.epochLaunched <= 1
    /\ Cardinality(hist.epochReturned) <= 1
    /\ Cardinality({t \in Tasks : task[t].pc = "launch"}) <= 1

\* two invocations got the same session from a single launch
C5_Witness ==
    /\ launched = 1 /\ hist.epochLaunched = 1
    /\ task[1].browser = 1 /\ task[2].browser = 1
    /\ task[1].auth = "signedin" /\ task[2].auth = "signedin"

\* C6: a session that a completed closeSession released or cleared is never
\* the installed one and is never returned by a later getOrCreateSession.
C6_NoStaleReuse ==
    /\ hist.stale = {}
    /\ session \notin hist.closed

\* session 1 was closed and a later invocation was handed the new session 2
C6_Witness ==
    /\ 1 \in hist.closed
    /\ session = 2
    /\ \E t \in Tasks : task[t].browser = 2

\* C7: an invocation whose sign-in failed ends with the translated
\* AuthenticationError without having obtained a page (no navigation, no
\* click); the failure leaves no session installed, the session it failed on
\* is never installed again, and sign-in is skipped only on a session on
\* which a sign-in succeeded.
C7_FailedSignIn ==
    /\ \A t \in Tasks :
         /\ task[t].auth = "failed" =>
              /\ Finished(t)
              /\ task[t].result = handle_tool_error("AuthenticationError", ToolName)
              /\ task[t].browser = 0
              /\ task[t].trace = <<>>
         /\ task[t].auth = "skipped" => task[t].browser \in hist.signedIn
    /\ hist.afterFailure \subseteq {0}
    /\ session \notin hist.failed

\* sign-in failed on session 1 and a later invocation signed in on session 2
C7_Witness ==
    /\ hist.failed = {1}
    /\ \E t \in Tasks : task[t].auth = "signedin" /\ task[t].browser = 2

====
